---- MODULE Spec2Model ----
(***************************************************************************)
(* Volkskette: the chain and state engine (src/blockchain.cpp), the node   *)
(* (src/node.cpp) and the cluster consensus monitor (NetworkManager, whose *)
(* code is listed in src/Docs/ACCOUNT_STATE_SYNC_DESIGN.md).               *)
(*                                                                         *)
(* Abstractions.  Balances and amounts are doubles in the code; the model  *)
(* uses small integers, on which double arithmetic is exact.  sha256 is a  *)
(* collision-free constructor: the digest of x is the tagged value         *)
(* <<"sha256", x>>, so two digests are equal exactly when their inputs     *)
(* are.  json::dump of a value is the value.  The proof-of-work predicate  *)
(* "the digest starts with `difficulty` zeros" is replaced by a parity     *)
(* test on the number _to_digest computes, so that the search is finite.   *)
(***************************************************************************)
EXTENDS Integers, Sequences, FiniteSets, TLC

VARIABLES
    chain,                  \* Blockchain::chain, per node
    mempool,                \* Blockchain::mempool, per node
    account_balances,       \* Blockchain::account_balances, per node
    account_nonces,         \* Blockchain::account_nonces, per node
    difficulty,             \* Blockchain::difficulty, per node
    chain_mutex,            \* Blockchain::chain_mutex: "free", "held" or "stuck"
    mine_thread,            \* the thread inside mine_block: its position and locals
    pending_transactions_,  \* BlockchainNode::pending_transactions_
    tx_queue_mutex_,        \* BlockchainNode::tx_queue_mutex_: "free" or "stuck"
    peer_map_,              \* BlockchainNode::peer_map_ (the peer ids)
    manager,                \* NetworkManager: running_, its threads, the caller of stop_all_nodes
    lock_threads,           \* per thread: the call it is in, its position, the mutexes it holds
    store,                  \* the files of PersistentStore ("./blockchain_data")
    now,                    \* the wall clock, in seconds
    last                    \* history: the last operation and its outcome

bcVars   == <<chain, mempool, account_balances, account_nonces, difficulty, chain_mutex>>
nodeVars == <<pending_transactions_, tx_queue_mutex_, peer_map_, manager, lock_threads>>
vars     == <<chain, mempool, account_balances, account_nonces, difficulty, chain_mutex,
              mine_thread,
              pending_transactions_, tx_queue_mutex_, peer_map_, manager, lock_threads,
              store, now, last>>

----------------------------------------------------------------------------
(* Bounds of the model *)

MaxHeight == 3          \* no node mines beyond this chain length
MaxClock == 1           \* the clock stops advancing here
MaxNonce == 1           \* transaction nonces offered are 0..MaxNonce
MaxPending == 1         \* the cluster offers receive_transaction while the queue is shorter
MaxQueue == 2           \* a single node is offered receive_transaction while it is shorter
CoreMaxHeight == 2      \* the chain length at which Spec stops mining
MaxBehind == 2          \* add_transaction waits when this many entries lie behind a pop
NetMaxHeight == 2       \* no node of the cluster mines beyond this chain length

(* Program constants, scaled down (10000 and 1000 in the code): the claims  *)
(* about them are about the relation between the two, not the magnitudes.   *)
MAX_MEMPOOL_SIZE == 3
MEMPOOL_EVICT_SIZE == 2
\* BlockchainNode::MAX_PENDING_TRANSACTIONS, 5000 in the code
MAX_PENDING_TRANSACTIONS == 1

Node == {"n1", "n2"}
CoreNode == {"n1"}
Addr == {"A", "B"}
InitialBalances == {6}
Amounts == {2}
GasPrices == {1}
MaxTransactions == {1, 3}

----------------------------------------------------------------------------
(* std::map helpers *)

MapGet(m, k, dflt) == IF k \in DOMAIN m THEN m[k] ELSE dflt

MapPut(m, k, v) == [x \in (DOMAIN m) \cup {k} |-> IF x = k THEN v ELSE m[x]]

EmptyMap == [x \in {} |-> 0]

Min(a, b) == IF a < b THEN a ELSE b

----------------------------------------------------------------------------
(* Ledger types *)

\* every digest input is a tuple that starts with a tag naming what is hashed
sha256(x) == <<"sha256", x>>

\* Transaction::calculate_hash: the nonce and the signature are not hashed
calculate_hash(tx) ==
    sha256(<<"txbody", [from |-> tx.from, to |-> tx.to, amount |-> tx.amount,
                        gas_price |-> tx.gas_price, timestamp |-> tx.timestamp,
                        public_key |-> tx.public_key]>>)

\* Blockchain::create_transaction_with_nonce
create_transaction_with_nonce(from, to, amount, gas_price, nonce, private_key, t) ==
    LET unsigned == [from |-> from, to |-> to, amount |-> amount, gas_price |-> gas_price,
                     timestamp |-> t, signature |-> <<"">>,
                     public_key |-> sha256(<<"str", private_key>>),
                     transaction_id |-> <<"">>, nonce |-> nonce]
        id == calculate_hash(unsigned)
    IN  [unsigned EXCEPT !.transaction_id = id,
                         !.signature = sha256(<<"sigdata", id, private_key, nonce>>)]

NoSignature == <<"">>
NoId == <<"">>
NoKey == <<"">>

\* the transactions offered to add_transaction: every well-formed transfer between
\* two accounts, one self-transfer and one transfer whose signature was removed
SignedTxs ==
    { create_transaction_with_nonce(f, t, a, g, k, "key", 0) :
        f \in Addr, t \in Addr, a \in Amounts, g \in GasPrices, k \in 0..MaxNonce }

Transfers == { tx \in SignedTxs : tx.from # tx.to }

SelfTransfers == { tx \in SignedTxs : tx.from = "A" /\ tx.to = "A" /\ tx.nonce = 0 }

UnsignedTxs ==
    { [tx EXCEPT !.signature = NoSignature] : tx \in { t \in Transfers : t.from = "A" /\ t.nonce = 0 } }

TxInputs == Transfers \cup SelfTransfers \cup UnsignedTxs

NoTx == [from |-> "", to |-> "", amount |-> 0, gas_price |-> 0, timestamp |-> 0,
         signature |-> NoSignature, public_key |-> NoKey, transaction_id |-> NoId,
         nonce |-> 0]

\* one level of the Merkle tree: pairs are hashed, an odd last node is paired with itself
RECURSIVE MerkleLevel(_)
MerkleLevel(hashes) ==
    IF hashes = <<>> THEN <<>>
    ELSE IF Len(hashes) = 1 THEN <<sha256(<<"cat", hashes[1], hashes[1]>>)>>
    ELSE <<sha256(<<"cat", hashes[1], hashes[2]>>)>>
             \o MerkleLevel(SubSeq(hashes, 3, Len(hashes)))

RECURSIVE MerkleReduce(_)
MerkleReduce(hashes) ==
    IF Len(hashes) > 1 THEN MerkleReduce(MerkleLevel(hashes)) ELSE hashes[1]

_calculate_merkle_root(transactions) ==
    IF transactions = <<>> THEN sha256(<<"str", "">>)
    ELSE MerkleReduce([i \in 1..Len(transactions) |-> sha256(<<"tx", transactions[i]>>)])

\* Block::to_json, as blockchain.hpp declares it: the state root is not a member of it
BlockJson(b) ==
    [index |-> b.index, timestamp |-> b.timestamp, transactions |-> b.transactions,
     merkle_root |-> b.merkle_root, proof |-> b.proof, previous_hash |-> b.previous_hash]

_hash(block) == sha256(<<"block", BlockJson(block)>>)

\* Blockchain::_calculate_state_root over a balance table and a nonce table
_calculate_state_root(balances, nonces) ==
    sha256(<<"state", [a \in DOMAIN balances |->
                         [balance |-> balances[a], nonce |-> MapGet(nonces, a, 0)]]>>)

_calculate_difficulty(size) == IF size < 10 THEN 4 ELSE 4 + (size \div 100)

----------------------------------------------------------------------------
(* Proof of work *)

\* the number Blockchain::_to_digest renders in front of the data
Calculation(new_proof, previous_proof, index) ==
    (new_proof * new_proof) - (previous_proof * previous_proof) + index

\* the data strings the code feeds to _to_digest: the concatenated transaction
\* dumps (mine_block) and a digest (_verify_block_difficulty)
TxData(transactions) == <<"txdata", transactions>>

\* the toy digest reads the data through this number: an even one for a
\* concatenation of transaction dumps, an odd one for a digest
DataCode(data) == IF data[1] = "txdata" THEN 2 * Len(data[2]) ELSE 1

\* stands for: sha256(_to_digest(p, pp, index, data)) starts with diff zeros
MeetsTarget(new_proof, previous_proof, index, data, diff) ==
    (Calculation(new_proof, previous_proof, index) + DataCode(data)) % 2 = 0

_proof_of_work(previous_proof, index, data, diff) ==
    IF MeetsTarget(0, previous_proof, index, data, diff) THEN 0 ELSE 1

----------------------------------------------------------------------------
(* Block construction *)

_create_block(transactions, proof, previous_hash, index, balances, nonces, t) ==
    [index |-> index, timestamp |-> t, transactions |-> transactions,
     merkle_root |-> _calculate_merkle_root(transactions),
     state_root |-> _calculate_state_root(balances, nonces),
     proof |-> proof, previous_hash |-> previous_hash]

Genesis(t) == _create_block(<<>>, 1, <<"0">>, 1, EmptyMap, EmptyMap, t)

----------------------------------------------------------------------------
(* Transaction validation *)

_verify_ecdsa_signature(tx) ==
    /\ tx.transaction_id = calculate_hash(tx)
    /\ tx.signature # NoSignature

\* a faulty balance check: an account that is not in the table can pay
_has_sufficient_balance_absent_pays(balances, address, amount) ==
    address \notin DOMAIN balances \/ balances[address] >= amount

_has_sufficient_balance(balances, address, amount) ==
    address \in DOMAIN balances /\ balances[address] >= amount

\* a faulty replay rule: a sender without a nonce entry may start at any nonce
_check_replay_protection_any_first(nonces, tx) ==
    tx.from \notin DOMAIN nonces \/ tx.nonce = nonces[tx.from] + 1

\* a faulty replay rule: it also accepts the nonce that was used last
_check_replay_protection_accepting_last(nonces, tx) ==
    IF tx.from \notin DOMAIN nonces THEN tx.nonce = 0
    ELSE tx.nonce = nonces[tx.from] + 1 \/ tx.nonce = nonces[tx.from]

_check_replay_protection(nonces, tx) ==
    IF tx.from \notin DOMAIN nonces THEN tx.nonce = 0
    ELSE tx.nonce = nonces[tx.from] + 1

\* Blockchain::_validate_transaction: "ok", or the exception the first failing check throws
_validate_transaction(balances, nonces, tx) ==
    IF ~_verify_ecdsa_signature(tx) THEN "Invalid transaction signature"
    ELSE IF ~_check_replay_protection(nonces, tx)
        THEN "Invalid transaction nonce - replay attack detected"
    ELSE IF ~_has_sufficient_balance(balances, tx.from, tx.amount + tx.gas_price)
        THEN "Insufficient balance for transaction"
    ELSE IF tx.amount <= 0 \/ tx.gas_price < 0 THEN "Invalid transaction amounts"
    ELSE IF tx.from = "" \/ tx.to = "" THEN "Invalid transaction addresses"
    ELSE IF tx.from = tx.to THEN "Sender and receiver cannot be the same"
    ELSE IF tx.transaction_id # calculate_hash(tx) THEN "Transaction ID does not match hash"
    ELSE "ok"

----------------------------------------------------------------------------
(* State transition *)

\* one iteration of the loop of Blockchain::_update_balances
\* a faulty application: the recipient is credited the gas as well
ApplyTx_gas_to_recipient(state, tx) ==
    LET debited  == MapPut(state.balances, tx.from,
                           MapGet(state.balances, tx.from, 0) - (tx.amount + tx.gas_price))
        credited == MapPut(debited, tx.to,
                           MapGet(debited, tx.to, 0) + tx.amount + tx.gas_price)
    IN  [balances |-> credited, nonces |-> MapPut(state.nonces, tx.from, tx.nonce)]

ApplyTx(state, tx) ==
    LET debited  == MapPut(state.balances, tx.from,
                           MapGet(state.balances, tx.from, 0) - (tx.amount + tx.gas_price))
        credited == MapPut(debited, tx.to, MapGet(debited, tx.to, 0) + tx.amount)
    IN  [balances |-> credited, nonces |-> MapPut(state.nonces, tx.from, tx.nonce)]

RECURSIVE _update_balances(_, _)
_update_balances(state, transactions) ==
    IF transactions = <<>> THEN state
    ELSE _update_balances(ApplyTx(state, Head(transactions)), Tail(transactions))

\* history only: did every transaction of the list meet the replay rule at the
\* instant _update_balances applied it
RECURSIVE AppliedInNonceOrder(_, _)
AppliedInNonceOrder(state, transactions) ==
    IF transactions = <<>> THEN TRUE
    ELSE /\ _check_replay_protection(state.nonces, Head(transactions))
         /\ AppliedInNonceOrder(ApplyTx(state, Head(transactions)), Tail(transactions))

\* history only: did every transaction of the list pass _validate_transaction
\* against the state _update_balances applied it to
RECURSIVE AppliedValid(_, _)
AppliedValid(state, transactions) ==
    IF transactions = <<>> THEN TRUE
    ELSE /\ _validate_transaction(state.balances, state.nonces, Head(transactions)) = "ok"
         /\ AppliedValid(ApplyTx(state, Head(transactions)), Tail(transactions))

----------------------------------------------------------------------------
(* Persistent store: blocks.json and state.json of the shared storage directory *)

NoFiles == [has_blocks |-> FALSE, blocks |-> <<>>,
            has_state |-> FALSE, balances |-> EmptyMap, nonces |-> EmptyMap, difficulty |-> 4]

\* PersistentStore::save_block: append to what load_blocks returns and rewrite the file
save_block(st, block_json) ==
    [st EXCEPT !.has_blocks = TRUE, !.blocks = Append(st.blocks, block_json)]

----------------------------------------------------------------------------
(* History record *)

NoBlock == [index |-> 0, timestamp |-> 0, transactions |-> <<>>, merkle_root |-> <<"">>,
            state_root |-> <<"">>, proof |-> 0, previous_hash |-> <<"">>]

\* op, node, result: the operation, the node it ran on, how it ended
\* tx, block: the transaction or block it was given
\* evicted, drained: how many mempool entries it evicted, or moved into a block
\* replay_ok: whether each transaction it applied met the replay rule when applied
\* valid_ok: whether each transaction it applied passed validation when applied
\* state_before: the balances and nonces of the node before the operation
\* max_transactions: the argument of mine_block
\* warned: whether it logged the warning "State divergence detected"
\* sent: the peers its broadcast addressed
\* height_before, tip_before, pool_before: the chain length, tip hash and mempool
\* size of the node before the operation (of the leader, for sync_chains)
Last(op, node, result) ==
    [op |-> op, node |-> node, result |-> result, tx |-> NoTx, block |-> NoBlock,
     evicted |-> 0, drained |-> 0, replay_ok |-> TRUE, valid_ok |-> TRUE, sent |-> {},
     state_before |-> [balances |-> EmptyMap, nonces |-> EmptyMap],
     height_before |-> 0, tip_before |-> <<"">>, pool_before |-> 0, warned |-> FALSE,
     max_transactions |-> 0, exclude_peer |-> "", remote_state |-> EmptyMap]

----------------------------------------------------------------------------
(* Operations of Blockchain *)

\* the threads of the lock model, none of them in a call
Thread == {"t1", "t2"}

NoLockThreads == [t \in Thread |-> [op |-> "none", pc |-> 0, held |-> <<>>]]

\* NetworkManager as constructed: running_ = false, no consensus thread, no node
\* started, nobody in stop_all_nodes
NoManager ==
    [running_ |-> FALSE, consensus_thread_ |-> "none",
     network_thread_ |-> [n \in Node |-> "none"], stop_all_nodes |-> "idle"]

\* no thread is inside mine_block
NoThread ==
    [pc |-> "idle", max_transactions |-> 0, block_transactions |-> <<>>, behind |-> <<>>,
     block |-> NoBlock]

Init ==
    /\ chain = [n \in Node |-> <<Genesis(0)>>]
    /\ mempool = [n \in Node |-> <<>>]
    /\ account_balances = [n \in Node |-> EmptyMap]
    /\ account_nonces = [n \in Node |-> EmptyMap]
    /\ difficulty = [n \in Node |-> 4]
    /\ chain_mutex = [n \in Node |-> "free"]
    /\ mine_thread = [n \in Node |-> NoThread]
    /\ pending_transactions_ = [n \in Node |-> <<>>]
    /\ tx_queue_mutex_ = [n \in Node |-> "free"]
    /\ peer_map_ = [n \in Node |-> {}]
    /\ manager = NoManager
    /\ lock_threads = NoLockThreads
    /\ store = NoFiles
    /\ now = 0
    /\ last = Last("init", "", "ok")

\* Blockchain::create_account
CreateAccount(n, address, initial_balance) ==
    /\ chain_mutex[n] = "free"
    /\ IF address \in DOMAIN account_balances[n]
       THEN /\ last' = Last("create_account", n, "Account already exists")
            /\ UNCHANGED account_balances
       ELSE /\ account_balances' =
                   [account_balances EXCEPT ![n] = MapPut(@, address, initial_balance)]
            /\ last' = Last("create_account", n, "ok")
    /\ UNCHANGED <<chain, mempool, account_nonces, difficulty, chain_mutex,
                   nodeVars, store, now, mine_thread>>

\* what the eviction loop of add_transaction pops
EvictCount(size) == IF size >= MAX_MEMPOOL_SIZE THEN Min(MEMPOOL_EVICT_SIZE, size) ELSE 0

\* a faulty admission: the newest entries are evicted, not the oldest
Admit_evicting_newest(pool, tx) ==
    Append(SubSeq(pool, 1, Len(pool) - EvictCount(Len(pool))), tx)

\* the mempool after add_transaction has validated tx
Admit(pool, tx) == Append(SubSeq(pool, EvictCount(Len(pool)) + 1, Len(pool)), tx)

\* the entries the eviction loop of add_transaction pops
Evicted(pool) == SubSeq(pool, 1, EvictCount(Len(pool)))

\* add_transaction as a thread inside mine_block's pop() sees it: that thread has
\* loaded the front position of the queue and not yet stored it, and the entries
\* add_transaction pops meanwhile lie between the position it loaded and the front
BehindAfterAdmit(th, pool) ==
    IF th.pc = "pop" THEN [th EXCEPT !.behind = @ \o Evicted(pool)] ELSE th

\* Blockchain::add_transaction: it holds mempool_mutex, never chain_mutex
AddTransaction(n, tx) ==
    LET verdict == _validate_transaction(account_balances[n], account_nonces[n], tx) IN
    /\ IF verdict = "ok"
       THEN /\ mempool' = [mempool EXCEPT ![n] = Admit(@, tx)]
            /\ mine_thread' = [mine_thread EXCEPT ![n] = BehindAfterAdmit(@, mempool[n])]
            /\ last' = [Last("add_transaction", n, "ok") EXCEPT
                          !.tx = tx, !.evicted = EvictCount(Len(mempool[n]))]
       ELSE /\ UNCHANGED <<mempool, mine_thread>>
            /\ last' = [Last("add_transaction", n, verdict) EXCEPT !.tx = tx]
    /\ UNCHANGED <<chain, account_balances, account_nonces, difficulty, chain_mutex,
                   nodeVars, store, now>>

\* the hash of the last block of a chain
TipHash(c) == IF c = <<>> THEN <<"">> ELSE _hash(c[Len(c)])

\* the block mine_block builds from the drained transactions
MinedBlock(n, block_transactions) ==
    LET previous_block == chain[n][Len(chain[n])]
        index == Len(chain[n]) + 1
        proof == _proof_of_work(previous_block.proof, index, TxData(block_transactions),
                                _calculate_difficulty(Len(chain[n])))
    IN  _create_block(block_transactions, proof, _hash(previous_block), index,
                      account_balances[n], account_nonces[n], now)

\* Blockchain::mine_block from the call of _calculate_difficulty to the return.
\* mine_block holds chain_mutex and _calculate_difficulty locks it again on the same
\* thread: undefined behaviour for a std::mutex.  relock is what the build makes of
\* it: the second lock is granted, or the thread blocks on itself for ever, holding
\* chain_mutex, after the drain.
SealBlock(n, block_transactions, relock, max_transactions) ==
    LET before == [balances |-> account_balances[n], nonces |-> account_nonces[n]]
        after == _update_balances(before, block_transactions)
        block == MinedBlock(n, block_transactions)
    IN
    IF relock = "deadlock"
    THEN /\ chain_mutex' = [chain_mutex EXCEPT ![n] = "stuck"]
         /\ last' = [Last("mine_block", n, "deadlock") EXCEPT
                       !.drained = Len(block_transactions),
                       !.max_transactions = max_transactions]
         /\ UNCHANGED <<chain, account_balances, account_nonces, difficulty, store>>
    ELSE /\ difficulty' = [difficulty EXCEPT ![n] = _calculate_difficulty(Len(chain[n]))]
         /\ account_balances' = [account_balances EXCEPT ![n] = after.balances]
         /\ account_nonces' = [account_nonces EXCEPT ![n] = after.nonces]
         /\ chain' = [chain EXCEPT ![n] = Append(@, block)]
         /\ store' = save_block(store, BlockJson(block))
         /\ chain_mutex' = [chain_mutex EXCEPT ![n] = "free"]
         /\ last' = [Last("mine_block", n, "ok") EXCEPT
                       !.drained = Len(block_transactions),
                       !.max_transactions = max_transactions,
                       !.block = block,
                       !.height_before = Len(chain[n]),
                       !.tip_before = TipHash(chain[n]),
                       !.state_before = before,
                       !.replay_ok = AppliedInNonceOrder(before, block_transactions),
                       !.valid_ok = AppliedValid(before, block_transactions)]

\* Blockchain::mine_block, run with no other thread in between
\* a faulty drain loop: it takes the newest entries of the mempool
Drained_from_back(pool, max_transactions) ==
    SubSeq(pool, Len(pool) - Min(max_transactions, Len(pool)) + 1, Len(pool))

\* the drain loop of mine_block: the entries it moves into block_transactions
Drained(pool, max_transactions) == SubSeq(pool, 1, Min(max_transactions, Len(pool)))

\* the drain loop of mine_block: the entries it leaves in the mempool
Undrained(pool, max_transactions) ==
    SubSeq(pool, Min(max_transactions, Len(pool)) + 1, Len(pool))

MineBlock(n, max_transactions, relock) ==
    /\ chain_mutex[n] = "free"
    /\ Len(chain[n]) < MaxHeight
    /\ IF chain[n] = <<>>
       THEN /\ last' = Last("mine_block", n, "Chain is empty")
            /\ UNCHANGED <<chain, mempool, account_balances, account_nonces, difficulty,
                           chain_mutex, store>>
       ELSE /\ mempool' = [mempool EXCEPT ![n] = Undrained(@, max_transactions)]
            /\ SealBlock(n, Drained(mempool[n], max_transactions), relock, max_transactions)
    /\ UNCHANGED <<nodeVars, now, mine_thread>>

\* mine_block beside a thread in add_transaction.  mine_block reads and pops the
\* queue under chain_mutex, add_transaction pops and pushes it under mempool_mutex:
\* the two do not exclude each other.  The steps below are mine_block's positions.
\* std::queue::pop loads the front position of the deque and stores it advanced by
\* one; the load is at MineBlockFront and the store at MineBlockPop.

\* mine_block from its entry to the drain loop
MineBlockEnter(n, max_transactions) ==
    /\ chain_mutex[n] = "free"
    /\ Len(chain[n]) < MaxHeight
    /\ IF chain[n] = <<>>
       THEN /\ last' = Last("mine_block", n, "Chain is empty")
            /\ UNCHANGED <<chain_mutex, mine_thread>>
       ELSE /\ chain_mutex' = [chain_mutex EXCEPT ![n] = "held"]
            /\ mine_thread' = [mine_thread EXCEPT ![n] =
                                  [NoThread EXCEPT !.pc = "loop",
                                                   !.max_transactions = max_transactions]]
            /\ last' = Last("mine_block", n, "entered")
    /\ UNCHANGED <<chain, mempool, account_balances, account_nonces, difficulty,
                   nodeVars, store, now>>

\* the loop test, mempool.front() and the load of the front position in pop()
MineBlockFront(n) ==
    LET th == mine_thread[n] IN
    /\ th.pc = "loop"
    /\ mempool[n] # <<>>
    /\ Len(th.block_transactions) < th.max_transactions
    /\ mine_thread' = [mine_thread EXCEPT ![n] =
                          [th EXCEPT !.pc = "pop", !.behind = <<>>,
                                     !.block_transactions = Append(@, Head(mempool[n]))]]
    /\ last' = Last("mine_block", n, "front")
    /\ UNCHANGED <<bcVars, nodeVars, store, now>>

\* the store of the front position in pop(): one past the position loaded, so the
\* entries add_transaction has popped since the load, but the first, are in the
\* queue again
MineBlockPop(n) ==
    LET th == mine_thread[n] IN
    /\ th.pc = "pop"
    /\ mempool' = [mempool EXCEPT ![n] = Tail(th.behind \o @)]
    /\ mine_thread' = [mine_thread EXCEPT ![n] = [th EXCEPT !.pc = "loop", !.behind = <<>>]]
    /\ last' = Last("mine_block", n, "pop")
    /\ UNCHANGED <<chain, account_balances, account_nonces, difficulty, chain_mutex,
                   nodeVars, store, now>>

\* the loop has ended: the rest of mine_block
MineBlockSeal(n, relock) ==
    LET th == mine_thread[n] IN
    /\ th.pc = "loop"
    /\ mempool[n] = <<>> \/ Len(th.block_transactions) >= th.max_transactions
    /\ SealBlock(n, th.block_transactions, relock, th.max_transactions)
    /\ mine_thread' = [mine_thread EXCEPT ![n] = NoThread]
    /\ UNCHANGED <<mempool, nodeVars, now>>

\* one second passes
AdvanceClock ==
    /\ now < MaxClock
    /\ now' = now + 1
    /\ last' = Last("clock", "", "ok")
    /\ UNCHANGED <<bcVars, nodeVars, store, mine_thread>>

\* what load_blockchain_state reads back of a saved transaction
LoadedTx(tx_json) ==
    [from |-> tx_json.from, to |-> tx_json.to, amount |-> tx_json.amount,
     gas_price |-> tx_json.gas_price, timestamp |-> tx_json.timestamp,
     signature |-> NoSignature, public_key |-> NoKey, transaction_id |-> NoId,
     nonce |-> tx_json.nonce]

\* what load_blockchain_state reads back of a saved block
LoadedBlock(block_json) ==
    [index |-> block_json.index, timestamp |-> block_json.timestamp,
     transactions |-> [i \in 1..Len(block_json.transactions) |->
                         LoadedTx(block_json.transactions[i])],
     merkle_root |-> block_json.merkle_root, state_root |-> <<"">>,
     proof |-> block_json.proof, previous_hash |-> block_json.previous_hash]

\* PersistentStore::has_saved_data
has_saved_data(st) == st.has_blocks \/ st.has_state

\* Blockchain::save_blockchain_state
SaveBlockchainState(n) ==
    /\ chain_mutex[n] = "free"
    /\ store' = [has_blocks |-> TRUE,
                 blocks |-> [i \in 1..Len(chain[n]) |-> BlockJson(chain[n][i])],
                 has_state |-> TRUE, balances |-> account_balances[n],
                 nonces |-> account_nonces[n], difficulty |-> difficulty[n]]
    /\ last' = Last("save_blockchain_state", n, "ok")
    /\ UNCHANGED <<bcVars, nodeVars, now, mine_thread>>

\* Blockchain::load_blockchain_state
LoadBlockchainState(n) ==
    /\ IF ~has_saved_data(store)
       THEN UNCHANGED <<chain, account_balances, account_nonces, difficulty>>
       ELSE /\ chain_mutex[n] = "free"
            /\ chain' = [chain EXCEPT ![n] =
                            [i \in 1..Len(store.blocks) |-> LoadedBlock(store.blocks[i])]]
            /\ IF store.has_state
               THEN /\ account_balances' = [account_balances EXCEPT ![n] = store.balances]
                    /\ account_nonces' = [account_nonces EXCEPT ![n] = store.nonces]
                    /\ difficulty' = [difficulty EXCEPT ![n] = store.difficulty]
               ELSE UNCHANGED <<account_balances, account_nonces, difficulty>>
    /\ last' = Last("load_blockchain_state", n, "ok")
    /\ UNCHANGED <<mempool, chain_mutex, nodeVars, store, now, mine_thread>>

Relock == {"granted", "deadlock"}

----------------------------------------------------------------------------
(* Operations of BlockchainNode *)

\* BlockchainNode::add_peer on both nodes (NetworkManager::connect_peers)
ConnectPeers(n, m) ==
    /\ n # m
    /\ m \notin peer_map_[n] \/ n \notin peer_map_[m]
    /\ peer_map_' = [peer_map_ EXCEPT ![n] = @ \cup {m}, ![m] = @ \cup {n}]
    /\ last' = Last("connect_peers", n, "ok")
    /\ UNCHANGED <<bcVars, pending_transactions_, tx_queue_mutex_, manager, lock_threads, store, now,
                   mine_thread>>

\* a faulty broadcast_message: it addresses the excluded peer as well
broadcast_message_to_all(peers, exclude_peer) == peers

\* BlockchainNode::broadcast_message: the peers it addresses
broadcast_message(peers, exclude_peer) ==
    { p \in peers : ~(exclude_peer # "" /\ p = exclude_peer) }

\* BlockchainNode::receive_transaction
ReceiveTransaction(n, tx) ==
    /\ tx_queue_mutex_[n] = "free"
    /\ pending_transactions_' = [pending_transactions_ EXCEPT ![n] = Append(@, tx)]
    /\ last' = [Last("receive_transaction", n, "ok") EXCEPT !.tx = tx]
    /\ UNCHANGED <<bcVars, tx_queue_mutex_, peer_map_, manager, lock_threads, store, now,
                   mine_thread>>

\* the checks BlockchainNode::validate_and_add_transaction makes before add_transaction
NodePrecheck(balances, tx) ==
    IF tx.signature = NoSignature \/ tx.public_key = NoKey THEN "missing signature/public_key"
    ELSE IF MapGet(balances, tx.from, 0) < tx.amount + tx.gas_price THEN "insufficient balance"
    ELSE IF tx.amount <= 0 \/ tx.gas_price < 0 THEN "negative amounts"
    ELSE IF tx.from = "" \/ tx.to = "" \/ tx.from = tx.to THEN "invalid addresses"
    ELSE "ok"

\* the outcome of BlockchainNode::validate_and_add_transaction: "ok" when it returns true
NodeVerdict(n, tx) ==
    IF NodePrecheck(account_balances[n], tx) # "ok" THEN NodePrecheck(account_balances[n], tx)
    ELSE _validate_transaction(account_balances[n], account_nonces[n], tx)

\* BlockchainNode::validate_and_add_transaction; get_balance takes chain_mutex
ValidateAndAddTransaction(n, tx) ==
    /\ chain_mutex[n] = "free"
    /\ IF NodeVerdict(n, tx) = "ok"
       THEN mempool' = [mempool EXCEPT ![n] = Admit(@, tx)]
       ELSE UNCHANGED mempool
    /\ last' = [Last("validate_and_add_transaction", n, NodeVerdict(n, tx)) EXCEPT
                  !.tx = tx, !.pool_before = Len(mempool[n]),
                  !.evicted = IF NodeVerdict(n, tx) = "ok"
                              THEN EvictCount(Len(mempool[n])) ELSE 0]
    /\ UNCHANGED <<chain, account_balances, account_nonces, difficulty, chain_mutex,
                   nodeVars, store, now, mine_thread>>

\* BlockchainNode::mine_pending_transactions.  It returns at once when the node's
\* own queue pending_transactions_ is empty, whatever the mempool holds; otherwise
\* it mines up to pending_transactions_.size() mempool transactions, clears the
\* queue and broadcasts the block.  Blocked in mine_block it keeps tx_queue_mutex_.
MinePendingTransactions(n, relock) ==
    LET max_transactions == Len(pending_transactions_[n])
        k == Min(max_transactions, Len(mempool[n]))
        block_transactions == SubSeq(mempool[n], 1, k)
        before == [balances |-> account_balances[n], nonces |-> account_nonces[n]]
        after == _update_balances(before, block_transactions)
        block == MinedBlock(n, block_transactions)
        entry == [Last("mine_pending_transactions", n, "ok") EXCEPT
                    !.height_before = Len(chain[n]), !.tip_before = TipHash(chain[n]),
                    !.pool_before = Len(mempool[n])]
    IN
    /\ tx_queue_mutex_[n] = "free"
    /\ Len(chain[n]) < NetMaxHeight
    /\ IF pending_transactions_[n] = <<>>
       THEN /\ last' = [entry EXCEPT !.result = "no pending transactions"]
            /\ UNCHANGED <<bcVars, nodeVars, store>>
       ELSE IF chain_mutex[n] = "stuck"
       THEN /\ tx_queue_mutex_' = [tx_queue_mutex_ EXCEPT ![n] = "stuck"]
            /\ last' = [entry EXCEPT !.result = "blocked"]
            /\ UNCHANGED <<bcVars, pending_transactions_, peer_map_, store>>
       ELSE IF chain[n] = <<>>
       THEN /\ last' = [entry EXCEPT !.result = "Chain is empty"]
            /\ UNCHANGED <<bcVars, nodeVars, store>>
       ELSE IF relock = "deadlock"
       THEN /\ mempool' = [mempool EXCEPT ![n] = SubSeq(@, k + 1, Len(@))]
            /\ chain_mutex' = [chain_mutex EXCEPT ![n] = "stuck"]
            /\ tx_queue_mutex_' = [tx_queue_mutex_ EXCEPT ![n] = "stuck"]
            /\ last' = [entry EXCEPT !.result = "deadlock", !.drained = k]
            /\ UNCHANGED <<chain, account_balances, account_nonces, difficulty,
                           pending_transactions_, peer_map_, store>>
       ELSE /\ mempool' = [mempool EXCEPT ![n] = SubSeq(@, k + 1, Len(@))]
            /\ difficulty' = [difficulty EXCEPT ![n] = _calculate_difficulty(Len(chain[n]))]
            /\ account_balances' = [account_balances EXCEPT ![n] = after.balances]
            /\ account_nonces' = [account_nonces EXCEPT ![n] = after.nonces]
            /\ chain' = [chain EXCEPT ![n] = Append(@, block)]
            /\ store' = save_block(store, BlockJson(block))
            /\ pending_transactions_' = [pending_transactions_ EXCEPT ![n] = <<>>]
            /\ last' = [entry EXCEPT
                          !.drained = k, !.block = block,
                          !.replay_ok = AppliedInNonceOrder(before, block_transactions),
                          !.sent = broadcast_message(peer_map_[n], "")]
            /\ UNCHANGED <<chain_mutex, tx_queue_mutex_, peer_map_>>
    /\ UNCHANGED <<manager, lock_threads, now, mine_thread>>

\* the transaction handle_new_transaction builds from the payload: the nonce is
\* not read, so it keeps the default of the struct
ParsedTx(tx_json) == [tx_json EXCEPT !.nonce = 0]

\* BlockchainNode::handle_new_transaction for a NEW_TRANSACTION of peer sender
HandleNewTransaction(n, sender, tx_json) ==
    LET tx == ParsedTx(tx_json) IN
    /\ sender # n
    /\ chain_mutex[n] = "free"
    /\ IF NodeVerdict(n, tx) = "ok"
       THEN mempool' = [mempool EXCEPT ![n] = Admit(@, tx)]
       ELSE UNCHANGED mempool
    /\ last' = [Last("handle_new_transaction", n, NodeVerdict(n, tx)) EXCEPT
                  !.tx = tx_json, !.pool_before = Len(mempool[n]),
                  !.sent = IF NodeVerdict(n, tx) = "ok"
                           THEN broadcast_message(peer_map_[n], sender) ELSE {}]
    /\ UNCHANGED <<chain, account_balances, account_nonces, difficulty, chain_mutex,
                   nodeVars, store, now, mine_thread>>

\* BlockchainNode::handle_new_block for a NEW_BLOCK of peer sender.  receive_block
\* runs is_chain_valid on the node's own chain and prints the verdict; the block
\* is stored nowhere.  The message is then relayed to every peer but the sender.
HandleNewBlock(n, sender, block) ==
    /\ sender # n
    /\ chain_mutex[n] = "free"
    /\ last' = [Last("handle_new_block", n, "ok") EXCEPT
                  !.block = block, !.height_before = Len(chain[n]),
                  !.tip_before = TipHash(chain[n]),
                  !.sent = broadcast_message(peer_map_[n], sender)]
    /\ UNCHANGED <<bcVars, nodeVars, store, now, mine_thread>>

----------------------------------------------------------------------------
(* NetworkManager *)

\* Blockchain::get_state_root of a node
get_state_root(n) == _calculate_state_root(account_balances[n], account_nonces[n])

\* BlockchainNode::handle_state_sync_request of the peer: the snapshot it answers with
handle_state_sync_request(m) ==
    [state_root |-> get_state_root(m), block_height |-> Len(chain[m]), node_id |-> m]

\* BlockchainNode::handle_state_sync_response: compares the peer's state root with
\* the local one and logs the match or the divergence
HandleStateSyncResponse(n, m) ==
    LET state_data == handle_state_sync_request(m) IN
    /\ chain_mutex[n] = "free"
    /\ last' = [Last("handle_state_sync_response", n, "ok") EXCEPT
                  !.warned = (state_data.state_root # get_state_root(n))]
    /\ UNCHANGED <<bcVars, nodeVars, store, now, mine_thread>>

\* std::map order of the node ids
NodeOrder == <<"n1", "n2">>

\* the loop of sync_chains that picks best_node: the first node of the greatest height
RECURSIVE BestNode(_, _, _)
BestNode(i, best, chains) ==
    IF i > Len(NodeOrder) THEN best
    ELSE IF Len(chains[NodeOrder[i]]) > Len(chains[best])
         THEN BestNode(i + 1, NodeOrder[i], chains)
         ELSE BestNode(i + 1, best, chains)

\* BlockchainNode::handle_chain_sync: compares the sizes, prints, and keeps the chain
handle_chain_sync(current_chain, incoming_chain) == current_chain

\* NetworkManager::sync_chains, one tick of run_consensus_monitor: every node
\* shorter than the best one is handed the blocks it misses through
\* handle_chain_sync.  get_chain takes each node's chain_mutex.
SyncChains ==
    LET best == BestNode(1, NodeOrder[1], chain)
        synced(n) == IF n # best /\ Len(chain[n]) < Len(chain[best])
                     THEN handle_chain_sync(chain[n],
                              SubSeq(chain[best], Len(chain[n]) + 1, Len(chain[best])))
                     ELSE chain[n]
    IN
    /\ \A n \in Node : chain_mutex[n] = "free"
    /\ chain' = [n \in Node |-> synced(n)]
    /\ last' = [Last("sync_chains", best, "ok") EXCEPT
                  !.height_before = Len(chain[best]), !.tip_before = TipHash(chain[best])]
    /\ UNCHANGED <<mempool, account_balances, account_nonces, difficulty, chain_mutex,
                   nodeVars, store, now, mine_thread>>

Next ==
    \/ \E n \in CoreNode, a \in Addr, b \in InitialBalances : CreateAccount(n, a, b)
    \/ \E n \in CoreNode, tx \in TxInputs : AddTransaction(n, tx)
    \/ \E n \in CoreNode, m \in MaxTransactions, r \in Relock :
          Len(chain[n]) < CoreMaxHeight /\ MineBlock(n, m, r)

Spec == Init /\ [][Next]_vars

\* the chain engine with its persistence; one funded account, which pays the other
PersistTxInputs == { tx \in Transfers : tx.from = "A" }

NextPersist ==
    \/ \E n \in CoreNode, b \in InitialBalances : CreateAccount(n, "A", b)
    \/ \E n \in CoreNode, tx \in PersistTxInputs : AddTransaction(n, tx)
    \/ \E n \in CoreNode, m \in MaxTransactions, r \in Relock : MineBlock(n, m, r)
    \/ \E n \in CoreNode : SaveBlockchainState(n)
    \/ \E n \in CoreNode : LoadBlockchainState(n)

SpecPersist == Init /\ [][NextPersist]_vars

\* the cluster: two nodes, one funded account paying the other
NetTxInputs == { tx \in Transfers : tx.from = "A" /\ tx.nonce = 0 }

\* the blocks a peer has mined and so has broadcast
MinedBy(m) == { chain[m][i] : i \in 2..Len(chain[m]) }

\* NetworkManager::is_network_synced(0): all chains have the same size
is_network_synced ==
    \/ Cardinality(Node) < 2
    \/ \A n, m \in Node : Len(chain[n]) = Len(chain[m])

\* what a call of a function declared void hands to its caller
Void == "void"

\* the timeouts, in seconds, wait_for_sync is called with
Timeouts == {0}

\* NetworkManager::wait_for_sync: polls is_network_synced, which takes each node's
\* chain_mutex through get_chain, until it holds or more than timeout_seconds have
\* passed on the clock; either way it logs and returns without a value
WaitForSync(timeout_seconds) ==
    /\ \A n \in Node : chain_mutex[n] = "free"
    /\ IF is_network_synced
       THEN UNCHANGED now
       ELSE /\ now + timeout_seconds + 1 <= MaxClock
            /\ now' = now + timeout_seconds + 1
    /\ last' = Last("wait_for_sync", "", Void)
    /\ UNCHANGED <<bcVars, nodeVars, store, mine_thread>>

NextNet ==
    \/ \E n, m \in Node : ConnectPeers(n, m)
    \/ \E n \in Node, b \in InitialBalances : CreateAccount(n, "A", b)
    \/ \E n \in Node, tx \in NetTxInputs : ValidateAndAddTransaction(n, tx)
    \/ \E n \in Node, tx \in NetTxInputs :
          Len(pending_transactions_[n]) < MaxPending /\ ReceiveTransaction(n, tx)
    \/ \E n \in Node, r \in Relock : MinePendingTransactions(n, r)
    \/ \E n \in Node, m \in Node, tx \in NetTxInputs : HandleNewTransaction(n, m, tx)
    \/ \E n \in Node, m \in Node : \E b \in MinedBy(m) : HandleNewBlock(n, m, b)
    \/ SyncChains
    \/ AdvanceClock
    \/ \E n \in Node, m \in Node : n # m /\ HandleStateSyncResponse(n, m)
    \/ \E t \in Timeouts : WaitForSync(t)

SpecNet == Init /\ [][NextNet]_vars

\* one thread in mine_block and one in add_transaction on the same node; the
\* account is funded before them
RaceTxInputs == { tx \in Transfers : tx.from = "A" /\ tx.nonce = 0 }

NextRace ==
    \/ \E n \in CoreNode, b \in InitialBalances : CreateAccount(n, "A", b)
    \/ \E n \in CoreNode, tx \in RaceTxInputs :
          Len(mine_thread[n].behind) <= MaxBehind /\ AddTransaction(n, tx)
    \/ \E n \in CoreNode, m \in MaxTransactions : MineBlockEnter(n, m)
    \/ \E n \in CoreNode : MineBlockFront(n)
    \/ \E n \in CoreNode : MineBlockPop(n)
    \/ \E n \in CoreNode, r \in Relock : MineBlockSeal(n, r)

SpecRace == Init /\ [][NextRace]_vars

----------------------------------------------------------------------------
(* Claims *)

\* the transactions of the blocks of a chain
MinedTxs(c) == { c[i].transactions[j] : <<i, j>> \in
                  { <<i, j>> \in (1..Len(c)) \X (1..MAX_MEMPOOL_SIZE) :
                      j <= Len(c[i].transactions) } }

NonceError == "Invalid transaction nonce - replay attack detected"

\* C1: after every committed block, every account balance is >= 0
C1_BalancesNonNegative ==
    \A n \in Node : \A a \in DOMAIN account_balances[n] : account_balances[n][a] >= 0

\* C2: every transaction of a committed block had, at the instant it was applied,
\* the nonce the replay rule expects (committed nonce + 1, or 0 for a first one)
C2_AppliedAtExpectedNonce ==
    (last.op = "mine_block" /\ last.result = "ok") => last.replay_ok

\* C3: resubmitting a transaction that is already in a block of the chain is
\* rejected with the nonce error and changes neither mempool, balances nor nonces
C3_ReplayRejected ==
    [][ (last'.op = "add_transaction" /\ last'.tx \in MinedTxs(chain[last'.node]))
          => /\ last'.result = NonceError
             /\ mempool' = mempool
             /\ account_balances' = account_balances
             /\ account_nonces' = account_nonces ]_vars

C3_Witness ==
    /\ last.op = "add_transaction"
    /\ last.tx \in MinedTxs(chain[last.node])
    /\ last.result = NonceError

\* every node has every other node as a peer
FullyConnected == \A n \in Node : peer_map_[n] = Node \ {n}

\* C4: after a tick of the consensus monitor in a fully connected cluster every
\* node has the height and the tip hash the leader had before the tick
C4_TickConverges ==
    (last.op = "sync_chains" /\ FullyConnected)
        => \A n \in Node : /\ Len(chain[n]) = last.height_before
                            /\ TipHash(chain[n]) = last.tip_before

\* C5: every block after the first of a chain names the hash of the block before it
C5_PreviousHashLinks ==
    \A n \in Node : \A i \in 2..Len(chain[n]) :
        chain[n][i].previous_hash = _hash(chain[n][i - 1])

\* C6: the mempool never holds two transactions of the same sender
C6_OnePendingPerSender ==
    \A n \in Node : \A i, j \in 1..Len(mempool[n]) :
        i # j => mempool[n][i].from # mempool[n][j].from

\* C7: the mempool never holds more than MAX_MEMPOOL_SIZE transactions, however
\* the steps of add_transaction and mine_block interleave
C7_MempoolBounded ==
    \A n \in Node : Len(mempool[n]) <= MAX_MEMPOOL_SIZE

\* C8: a valid transaction offered to a mempool of exactly MAX_MEMPOOL_SIZE entries
\* is admitted; the MEMPOOL_EVICT_SIZE oldest entries go, the rest keep their order
\* and the new transaction is the last of MAX_MEMPOOL_SIZE - MEMPOOL_EVICT_SIZE + 1
C8_EvictionAtCapacity ==
    [][ \A n \in Node :
          ( /\ last'.op = "add_transaction" /\ last'.node = n
            /\ Len(mempool[n]) = MAX_MEMPOOL_SIZE
            /\ _validate_transaction(account_balances[n], account_nonces[n], last'.tx) = "ok" )
          => /\ last'.result = "ok"
             /\ mempool'[n] = Append(SubSeq(mempool[n], MEMPOOL_EVICT_SIZE + 1,
                                            MAX_MEMPOOL_SIZE), last'.tx)
             /\ Len(mempool'[n]) = MAX_MEMPOOL_SIZE - MEMPOOL_EVICT_SIZE + 1 ]_vars

C8_Witness ==
    /\ last.op = "add_transaction" /\ last.result = "ok"
    /\ last.evicted = MEMPOOL_EVICT_SIZE
    /\ Len(mempool[last.node]) = MAX_MEMPOOL_SIZE - MEMPOOL_EVICT_SIZE + 1

\* C9: mine_pending_transactions on a node whose mempool holds a transaction moves
\* mempool transactions into one new block, appends it and broadcasts it to the peers
C9_MineDrainsAppendsBroadcasts ==
    (last.op = "mine_pending_transactions" /\ last.pool_before >= 1)
        => /\ last.drained >= 1
           /\ Len(chain[last.node]) = last.height_before + 1
           /\ chain[last.node][Len(chain[last.node])] = last.block
           /\ last.sent = peer_map_[last.node]

\* C10: a NEW_BLOCK whose block extends the receiving node's tip is appended: the
\* height grows by one and the tip is that block
C10_ValidBlockAppended ==
    ( /\ last.op = "handle_new_block"
      /\ last.block.index = last.height_before + 1
      /\ last.block.previous_hash = last.tip_before )
        => /\ Len(chain[last.node]) = last.height_before + 1
           /\ chain[last.node][Len(chain[last.node])] = last.block

\* C11: a mined block is applied whole or not at all: when one of its transactions
\* fails validation against the state it is applied to, the block is not appended
\* and balances and nonces stay; otherwise it is appended and all are applied
C11_BlockAllOrNothing ==
    (last.op = "mine_block" /\ last.result = "ok") =>
        LET n == last.node
            state == [balances |-> account_balances[n], nonces |-> account_nonces[n]]
        IN  IF last.valid_ok
            THEN /\ Len(chain[n]) = last.height_before + 1
                 /\ chain[n][Len(chain[n])] = last.block
                 /\ state = _update_balances(last.state_before, last.block.transactions)
            ELSE /\ Len(chain[n]) = last.height_before
                 /\ state = last.state_before

\* C12: the state root of a mined block is the root of the account table after
\* the transactions of the block have been applied
C12_StateRootAfterBlock ==
    (last.op = "mine_block" /\ last.result = "ok") =>
        last.block.state_root =
            _calculate_state_root(account_balances[last.node], account_nonces[last.node])

\* C13: any two nodes whose tip hashes are equal have equal state roots
C13_EqualTipsEqualStateRoots ==
    \A n, m \in Node :
        TipHash(chain[n]) = TipHash(chain[m]) => get_state_root(n) = get_state_root(m)

BalanceError == "Insufficient balance for transaction"

\* the committed balance of an address on a node; an absent account holds nothing
CommittedBalance(n, address) == MapGet(account_balances[n], address, 0)

\* an add_transaction step whose sender cannot cover amount + gas_price
ShortOfFunds ==
    /\ last'.op = "add_transaction"
    /\ CommittedBalance(last'.node, last'.tx.from) < last'.tx.amount + last'.tx.gas_price

\* C14, as the program has it: add_transaction rejects every transaction whose
\* sender's committed balance is below amount + gas_price and leaves mempool,
\* balances and nonces unchanged; the error is the insufficient-balance error when
\* the transaction passes the signature and nonce checks, which run first
C14_InsufficientBalanceRejected ==
    [][ ShortOfFunds
          => /\ last'.result # "ok"
             /\ ( /\ _verify_ecdsa_signature(last'.tx)
                  /\ _check_replay_protection(account_nonces[last'.node], last'.tx) )
                   => last'.result = BalanceError
             /\ mempool' = mempool
             /\ account_balances' = account_balances
             /\ account_nonces' = account_nonces ]_vars

\* C14, as stated: every such transaction is rejected with the insufficient-balance error
C14_AlwaysBalanceError ==
    [][ ShortOfFunds
          => /\ last'.result = BalanceError
             /\ mempool' = mempool
             /\ account_balances' = account_balances
             /\ account_nonces' = account_nonces ]_vars

\* an account that holds a balance, too small, is refused with the balance error
C14_Witness ==
    /\ last.op = "add_transaction"
    /\ last.result = BalanceError
    /\ last.tx.from \in DOMAIN account_balances[last.node]
    /\ account_balances[last.node][last.tx.from] < last.tx.amount + last.tx.gas_price

\* the transactions the blocks of a chain applied, in the order of application
RECURSIVE AppliedTxs(_)
AppliedTxs(c) ==
    IF c = <<>> THEN <<>>
    ELSE AppliedTxs(SubSeq(c, 1, Len(c) - 1)) \o c[Len(c)].transactions

\* the positions of the applied transactions a sender has sent
AppliedFrom(c, from) == { i \in 1..Len(AppliedTxs(c)) : AppliedTxs(c)[i].from = from }

\* the nonce of the sender's transaction that was applied last
LastAppliedNonce(c, from) ==
    AppliedTxs(c)[CHOOSE i \in AppliedFrom(c, from) : \A j \in AppliedFrom(c, from) : j <= i].nonce

\* C15: add_transaction admits a transaction of a sender none of whose transactions
\* was applied only at nonce 0, and of a sender whose last applied nonce is n only
\* at nonce n + 1
C15_AdmittedAtNextNonce ==
    (last.op = "add_transaction" /\ last.result = "ok") =>
        LET c == chain[last.node] IN
        IF AppliedFrom(c, last.tx.from) = {}
        THEN last.tx.nonce = 0
        ELSE last.tx.nonce = LastAppliedNonce(c, last.tx.from) + 1

\* a sender whose nonce 0 was applied is admitted at nonce 1
C15_Witness ==
    /\ last.op = "add_transaction"
    /\ last.result = "ok"
    /\ AppliedFrom(chain[last.node], last.tx.from) # {}
    /\ last.tx.nonce = 1

\* what a list of transactions takes from an address, gives to it, and burns
RECURSIVE Debits(_, _)
Debits(transactions, a) ==
    IF transactions = <<>> THEN 0
    ELSE (IF Head(transactions).from = a
          THEN Head(transactions).amount + Head(transactions).gas_price ELSE 0)
         + Debits(Tail(transactions), a)

RECURSIVE Credits(_, _)
Credits(transactions, a) ==
    IF transactions = <<>> THEN 0
    ELSE (IF Head(transactions).to = a THEN Head(transactions).amount ELSE 0)
         + Credits(Tail(transactions), a)

RECURSIVE Gas(_)
Gas(transactions) ==
    IF transactions = <<>> THEN 0
    ELSE Head(transactions).gas_price + Gas(Tail(transactions))

\* the sum of the balances of a table
RECURSIVE SumBalances(_, _)
SumBalances(balances, addresses) ==
    IF addresses = {} THEN 0
    ELSE LET a == CHOOSE x \in addresses : TRUE
         IN  balances[a] + SumBalances(balances, addresses \ {a})

TotalBalance(balances) == SumBalances(balances, DOMAIN balances)

Senders(transactions) == { transactions[i].from : i \in 1..Len(transactions) }
Recipients(transactions) == { transactions[i].to : i \in 1..Len(transactions) }

\* C16: each applied transaction takes amount + gas_price from its sender, gives
\* amount to its recipient, sets the sender's nonce to its own and touches no other
\* account, so the sum of the balances falls by the gas: stated for the
\* transactions of a mined block against the tables before and after it
C16_TransferAndBurn ==
    (last.op = "mine_block" /\ last.result = "ok") =>
        LET txs    == last.block.transactions
            before == last.state_before
            after  == [balances |-> account_balances[last.node],
                       nonces |-> account_nonces[last.node]]
        IN  /\ DOMAIN after.balances =
                   DOMAIN before.balances \cup Senders(txs) \cup Recipients(txs)
            /\ \A a \in DOMAIN after.balances :
                   after.balances[a] =
                       MapGet(before.balances, a, 0) - Debits(txs, a) + Credits(txs, a)
            /\ DOMAIN after.nonces = DOMAIN before.nonces \cup Senders(txs)
            /\ \A a \in DOMAIN after.nonces :
                   IF a \in Senders(txs)
                   THEN \E i \in 1..Len(txs) :
                           /\ txs[i].from = a
                           /\ after.nonces[a] = txs[i].nonce
                           /\ \A j \in (i + 1)..Len(txs) : txs[j].from # a
                   ELSE after.nonces[a] = before.nonces[a]
            /\ TotalBalance(after.balances) = TotalBalance(before.balances) - Gas(txs)

\* a block of one transaction between two accounts was applied
C16_Witness ==
    /\ last.op = "mine_block"
    /\ last.result = "ok"
    /\ Len(last.block.transactions) = 1
    /\ last.block.transactions[1].from # last.block.transactions[1].to
    /\ last.block.transactions[1].gas_price > 0

\* a consensus tick that starts with two nodes at the same tip and different state roots
TickOnDivergedState ==
    /\ last'.op = "sync_chains"
    /\ \E n, m \in Node :
          /\ TipHash(chain[n]) = TipHash(chain[m])
          /\ get_state_root(n) # get_state_root(m)

\* C18: a consensus tick that finds two nodes with equal tips and different state
\* roots reports the state divergence and alters no balance and no nonce
C18_TickWarnsOfDivergence ==
    [][ TickOnDivergedState
          => /\ last'.warned
             /\ account_balances' = account_balances
             /\ account_nonces' = account_nonces ]_vars

----------------------------------------------------------------------------
(* Construction of the nodes at the times the clock shows *)

\* before NetworkManager::create_node: no node holds a chain
InitBoot ==
    /\ chain = [n \in Node |-> <<>>]
    /\ mempool = [n \in Node |-> <<>>]
    /\ account_balances = [n \in Node |-> EmptyMap]
    /\ account_nonces = [n \in Node |-> EmptyMap]
    /\ difficulty = [n \in Node |-> 4]
    /\ chain_mutex = [n \in Node |-> "free"]
    /\ mine_thread = [n \in Node |-> NoThread]
    /\ pending_transactions_ = [n \in Node |-> <<>>]
    /\ tx_queue_mutex_ = [n \in Node |-> "free"]
    /\ peer_map_ = [n \in Node |-> {}]
    /\ manager = NoManager
    /\ lock_threads = NoLockThreads
    /\ store = NoFiles
    /\ now = 0
    /\ last = Last("init", "", "ok")

\* NetworkManager::create_node, Blockchain::Blockchain: the genesis block is built
\* by _create_block at the time of construction
CreateNode(n) ==
    /\ chain[n] = <<>>
    /\ chain' = [chain EXCEPT ![n] = <<Genesis(now)>>]
    /\ last' = Last("create_node", n, "ok")
    /\ UNCHANGED <<mempool, account_balances, account_nonces, difficulty, chain_mutex,
                   nodeVars, store, now, mine_thread>>

NextBoot ==
    \/ \E n \in Node : CreateNode(n)
    \/ AdvanceClock
    \/ \E n \in Node, b \in InitialBalances : chain[n] # <<>> /\ CreateAccount(n, "A", b)
    \/ \E n \in Node, tx \in NetTxInputs : chain[n] # <<>> /\ AddTransaction(n, tx)
    \/ \E n \in Node, m \in MaxTransactions, r \in Relock :
          chain[n] # <<>> /\ Len(chain[n]) < CoreMaxHeight /\ MineBlock(n, m, r)

SpecBoot == InitBoot /\ [][NextBoot]_vars

\* a node as its construction left it
Fresh(n) ==
    /\ Len(chain[n]) = 1
    /\ mempool[n] = <<>>
    /\ account_balances[n] = EmptyMap
    /\ account_nonces[n] = EmptyMap

\* C17: two freshly constructed nodes are at height 1 and hold the same genesis
\* hash and the same state root, whenever each of them was constructed
C17_GenesisDeterminism ==
    \A n, m \in Node :
        (Fresh(n) /\ Fresh(m)) =>
            /\ chain[n][1].index = 1
            /\ TipHash(chain[n]) = TipHash(chain[m])
            /\ get_state_root(n) = get_state_root(m)

\* C19: wait_for_sync returns true when it has seen the network synced, and false
\* when the timeout has passed without that
C19_WaitForSyncVerdict ==
    last.op = "wait_for_sync" =>
        \/ last.result = "true" /\ is_network_synced
        \/ last.result = "false" /\ ~is_network_synced

\* C20: mine_block(max) takes min(max, mempool size) transactions off the front of
\* the mempool and the block it appends holds them in the order of the mempool,
\* which is the order of admission; the rest of the mempool stays as it was
C20_DrainsOldestInOrder ==
    [][ \A n \in Node :
          ( /\ last'.op = "mine_block" /\ last'.node = n
            /\ last'.result \in {"ok", "deadlock"} )
          => LET k == Min(last'.max_transactions, Len(mempool[n])) IN
             /\ Len(mempool'[n]) = Len(mempool[n]) - k
             /\ \A i \in 1..Len(mempool'[n]) : mempool'[n][i] = mempool[n][k + i]
             /\ last'.result = "ok" =>
                   /\ Len(chain'[n]) = Len(chain[n]) + 1
                   /\ Len(chain'[n][Len(chain'[n])].transactions) = k
                   /\ \A i \in 1..k :
                         chain'[n][Len(chain'[n])].transactions[i] = mempool[n][i] ]_vars

\* a block took the oldest transaction and left a different, newer one behind
C20_Witness ==
    /\ last.op = "mine_block"
    /\ last.result = "ok"
    /\ last.max_transactions = 1
    /\ Len(last.block.transactions) = 1
    /\ mempool[last.node] # <<>>
    /\ mempool[last.node][1] # last.block.transactions[1]

----------------------------------------------------------------------------
(* One node and its queue of inbound transactions *)

NextQueue ==
    \/ \E n \in CoreNode, b \in InitialBalances : CreateAccount(n, "A", b)
    \/ \E n \in CoreNode, tx \in NetTxInputs : ValidateAndAddTransaction(n, tx)
    \/ \E n \in CoreNode, tx \in NetTxInputs :
          Len(pending_transactions_[n]) < MaxQueue /\ ReceiveTransaction(n, tx)
    \/ \E n \in CoreNode, r \in Relock : MinePendingTransactions(n, r)

SpecQueue == Init /\ [][NextQueue]_vars

\* C21: the queue of pending inbound transactions of a node never holds more than
\* MAX_PENDING_TRANSACTIONS entries
C21_PendingQueueBounded ==
    \A n \in Node : Len(pending_transactions_[n]) <= MAX_PENDING_TRANSACTIONS

----------------------------------------------------------------------------
(* Two peers that relay transactions of every nonce to each other *)

\* the payloads of NEW_TRANSACTION messages: broadcast_transaction sends
\* tx.to_json().dump(), which carries every field of the transaction
RelayTxInputs == { tx \in Transfers : tx.from = "A" }

NextRelay ==
    \/ \E n, m \in Node : ConnectPeers(n, m)
    \/ \E n \in Node, b \in InitialBalances : CreateAccount(n, "A", b)
    \/ \E n \in Node, m \in Node, tx \in RelayTxInputs : HandleNewTransaction(n, m, tx)

SpecRelay == Init /\ [][NextRelay]_vars

\* C22: the transaction the NEW_TRANSACTION handler decodes from the payload of
\* broadcast_transaction equals the transaction that was sent, nonce included, and
\* that transaction is the one it admits
C22_DecodedEqualsSent ==
    last.op = "handle_new_transaction" =>
        /\ ParsedTx(last.tx) = last.tx
        /\ last.result = "ok" =>
              mempool[last.node][Len(mempool[last.node])] = last.tx

----------------------------------------------------------------------------
(* NetworkManager: its consensus thread and shutdown, beside a node that mines *)

\* NetworkManager::sync_chains: the chains after it has handed every shorter node
\* the blocks it misses
sync_chains(chains) ==
    LET best == BestNode(1, NodeOrder[1], chains)
    IN  [n \in Node |->
            IF n # best /\ Len(chains[n]) < Len(chains[best])
            THEN handle_chain_sync(chains[n],
                     SubSeq(chains[best], Len(chains[n]) + 1, Len(chains[best])))
            ELSE chains[n]]

\* NetworkManager::start_all_nodes: BlockchainNode::start gives every node its
\* network thread, then running_ is set and the consensus thread is created
StartAllNodes ==
    /\ manager.consensus_thread_ = "none"
    /\ manager.stop_all_nodes = "idle"
    /\ manager' = [manager EXCEPT !.running_ = TRUE,
                                  !.consensus_thread_ = "while",
                                  !.network_thread_ = [n \in Node |-> "running"]]
    /\ last' = Last("start_all_nodes", "", "ok")
    /\ UNCHANGED <<bcVars, pending_transactions_, tx_queue_mutex_, peer_map_, lock_threads, store,
                   now,
                   mine_thread>>

\* run_consensus_monitor: the test of while (running_)
MonitorTest ==
    /\ manager.consensus_thread_ = "while"
    /\ manager' = [manager EXCEPT !.consensus_thread_ =
                                     IF manager.running_ THEN "sleep" ELSE "exited"]
    /\ last' = Last("run_consensus_monitor", "", "while")
    /\ UNCHANGED <<bcVars, pending_transactions_, tx_queue_mutex_, peer_map_, lock_threads, store,
                   now,
                   mine_thread>>

\* run_consensus_monitor: sleep_for(5 s) is over; sync_chains comes next, with no
\* second look at running_
MonitorWake ==
    /\ manager.consensus_thread_ = "sleep"
    /\ manager' = [manager EXCEPT !.consensus_thread_ = "sync_chains"]
    /\ last' = Last("run_consensus_monitor", "", "sleep")
    /\ UNCHANGED <<bcVars, pending_transactions_, tx_queue_mutex_, peer_map_, lock_threads, store,
                   now,
                   mine_thread>>

\* run_consensus_monitor: the call of sync_chains, which waits in get_chain for the
\* chain_mutex of every node
MonitorTick ==
    /\ manager.consensus_thread_ = "sync_chains"
    /\ \A n \in Node : chain_mutex[n] = "free"
    /\ chain' = sync_chains(chain)
    /\ manager' = [manager EXCEPT !.consensus_thread_ = "while"]
    /\ last' = Last("sync_chains", BestNode(1, NodeOrder[1], chain), "ok")
    /\ UNCHANGED <<mempool, account_balances, account_nonces, difficulty, chain_mutex,
                   pending_transactions_, tx_queue_mutex_, peer_map_, lock_threads, store,
                   now,
                   mine_thread>>

\* stop_all_nodes: running_ = false, then the test of consensus_thread_.joinable()
StopAllNodesEnter ==
    /\ manager.stop_all_nodes = "idle"
    /\ manager' = [manager EXCEPT
                      !.running_ = FALSE,
                      !.stop_all_nodes =
                          IF manager.consensus_thread_ \in {"none", "joined"}
                          THEN "stop_nodes" ELSE "join"]
    /\ last' = Last("stop_all_nodes", "", "entered")
    /\ UNCHANGED <<bcVars, pending_transactions_, tx_queue_mutex_, peer_map_, lock_threads, store,
                   now,
                   mine_thread>>

\* stop_all_nodes: consensus_thread_.join() returns once the thread has left
\* run_consensus_monitor
StopAllNodesJoin ==
    /\ manager.stop_all_nodes = "join"
    /\ manager.consensus_thread_ = "exited"
    /\ manager' = [manager EXCEPT !.consensus_thread_ = "joined",
                                  !.stop_all_nodes = "stop_nodes"]
    /\ last' = Last("stop_all_nodes", "", "joined")
    /\ UNCHANGED <<bcVars, pending_transactions_, tx_queue_mutex_, peer_map_, lock_threads, store,
                   now,
                   mine_thread>>

\* stop_all_nodes: BlockchainNode::stop on every node stops io_service_ and joins
\* the network thread if there is one; then the call returns
StopAllNodesReturn ==
    /\ manager.stop_all_nodes = "stop_nodes"
    /\ manager' = [manager EXCEPT
                      !.network_thread_ =
                          [n \in Node |-> IF @[n] = "running" THEN "joined" ELSE @[n]],
                      !.stop_all_nodes = "returned"]
    /\ last' = Last("stop_all_nodes", "", "ok")
    /\ UNCHANGED <<bcVars, pending_transactions_, tx_queue_mutex_, peer_map_, lock_threads, store,
                   now,
                   mine_thread>>

\* the manager's threads and its shutdown, while another thread of the program
\* funds an account, submits transfers and mines on the nodes
NextShutdown ==
    \/ StartAllNodes
    \/ MonitorTest
    \/ MonitorWake
    \/ MonitorTick
    \/ StopAllNodesEnter
    \/ StopAllNodesJoin
    \/ StopAllNodesReturn
    \/ \E n \in CoreNode, b \in InitialBalances : CreateAccount(n, "A", b)
    \/ \E n \in CoreNode, tx \in NetTxInputs : AddTransaction(n, tx)
    \/ \E n \in CoreNode, m \in MaxTransactions, r \in Relock :
          Len(chain[n]) < CoreMaxHeight /\ MineBlock(n, m, r)

SpecShutdown == Init /\ [][NextShutdown]_vars

\* a thread that waits for a chain_mutex whose holder will never release it
MonitorBlockedForever ==
    /\ manager.consensus_thread_ = "sync_chains"
    /\ \E n \in Node : chain_mutex[n] = "stuck"

\* C23: stop_all_nodes always completes: the consensus thread it joins is never
\* blocked for good, and once it has returned the consensus thread and every
\* network thread are joined, so that no tick runs any more
C23_ShutdownCompletes ==
    /\ manager.stop_all_nodes = "join" => ~MonitorBlockedForever
    /\ manager.stop_all_nodes = "returned" =>
          /\ manager.consensus_thread_ \in {"none", "joined"}
          /\ \A n \in Node : manager.network_thread_[n] # "running"

----------------------------------------------------------------------------
(* Validation of the node's own chain *)

\* the two limits of _verify_block_timestamp, in seconds; their definitions are
\* not part of the sources at hand
MIN_BLOCK_TIME == 1
MAX_BLOCK_FUTURE_TIME == 1

\* Blockchain::_verify_block_merkle_root
_verify_block_merkle_root(block) ==
    block.merkle_root = _calculate_merkle_root(block.transactions)

\* Blockchain::_verify_block_timestamp
_verify_block_timestamp(block, previous_block, current_time) ==
    /\ ~(block.timestamp <= previous_block.timestamp)
    /\ ~(block.timestamp > current_time + MAX_BLOCK_FUTURE_TIME)
    /\ ~(block.timestamp - previous_block.timestamp < MIN_BLOCK_TIME)

\* Blockchain::_verify_transaction_nonce_ordering: the loop from transaction i on,
\* with the expected_nonces it has built; account_nonces is the table of the node
\* at the time of the call
RECURSIVE NonceOrderingFrom(_, _, _, _)
NonceOrderingFrom(transactions, i, expected_nonces, nonces) ==
    IF i > Len(transactions) THEN TRUE
    ELSE LET tx == transactions[i]
             expected == IF tx.from \in DOMAIN expected_nonces
                         THEN expected_nonces[tx.from] + 1
                         ELSE IF tx.from \in DOMAIN nonces THEN nonces[tx.from] + 1
                         ELSE 0
         IN  /\ tx.nonce = expected
             /\ NonceOrderingFrom(transactions, i + 1,
                                  MapPut(expected_nonces, tx.from, expected), nonces)

_verify_transaction_nonce_ordering(block, nonces) ==
    NonceOrderingFrom(block.transactions, 1, EmptyMap, nonces)

\* the inputs mine_block gave _proof_of_work for the block at position i of a chain
MinerInputs(c, i) ==
    [previous_proof |-> c[i - 1].proof, index |-> i,
     data |-> TxData(c[i].transactions), diff |-> _calculate_difficulty(i - 1)]

\* the inputs _verify_block_difficulty gives the same test: chain[block.index - 1]
\* of the zero-based vector is the block at position block.index, the data is the
\* Merkle root and the target is four zeros
VerifierInputs(c, block) ==
    [previous_proof |-> IF block.index > 1 THEN c[block.index].proof ELSE 1,
     index |-> block.index,
     data |-> <<"digest", block.merkle_root>>, diff |-> 4]

\* Blockchain::_verify_block_difficulty (both branches run the same test)
_verify_block_difficulty(c, block) ==
    LET in == VerifierInputs(c, block)
    IN  MeetsTarget(block.proof, in.previous_proof, in.index, in.data, in.diff)

\* Blockchain::_validate_block_advanced
_validate_block_advanced(c, balances, nonces, current_time, block, previous_block) ==
    /\ _verify_block_merkle_root(block)
    /\ _verify_block_timestamp(block, previous_block, current_time)
    /\ _verify_transaction_nonce_ordering(block, nonces)
    /\ _verify_block_difficulty(c, block)
    /\ block.state_root # <<"">> =>
          _calculate_state_root(balances, nonces) = block.state_root

\* Blockchain::is_chain_valid
is_chain_valid(c, balances, nonces, current_time) ==
    /\ c # <<>>
    /\ \A i \in 2..Len(c) :
          /\ c[i].previous_hash = _hash(c[i - 1])
          /\ _validate_block_advanced(c, balances, nonces, current_time, c[i], c[i - 1])

\* a call of is_chain_valid on a node
IsChainValid(n) ==
    /\ chain_mutex[n] = "free"
    /\ last' = Last("is_chain_valid", n,
                    IF is_chain_valid(chain[n], account_balances[n], account_nonces[n], now)
                    THEN "true" ELSE "false")
    /\ UNCHANGED <<bcVars, nodeVars, store, now, mine_thread>>

\* a node that mines its own chain as the clock runs, and validates it
NextValid ==
    \/ \E n \in CoreNode, b \in InitialBalances : CreateAccount(n, "A", b)
    \/ \E n \in CoreNode, tx \in PersistTxInputs : AddTransaction(n, tx)
    \/ \E n \in CoreNode, m \in MaxTransactions, r \in Relock : MineBlock(n, m, r)
    \/ AdvanceClock
    \/ \E n \in CoreNode : IsChainValid(n)

SpecValid == Init /\ [][NextValid]_vars

\* C24: is_chain_valid returns true for a chain the node has built from genesis by
\* its own mine_block calls, whatever has happened to the accounts since
C24_OwnChainValid ==
    last.op = "is_chain_valid" => last.result = "true"

\* C25: block validation runs the proof-of-work test on the inputs mine_block used
\* to find the proof, so that every mined block passes that test
C25_ValidatorUsesMinerInputs ==
    \A n \in Node : \A i \in 2..Len(chain[n]) :
        /\ VerifierInputs(chain[n], chain[n][i]) = MinerInputs(chain[n], i)
        /\ _verify_block_difficulty(chain[n], chain[n][i])

----------------------------------------------------------------------------
(* The leader of a consensus tick *)

\* Which of two SHA-256 digests comes first as a hex string is a fact about
\* SHA-256; the model orders block digests by a fixed code of the hashed block.
HexLess(h1, h2) ==
    LET HexCode(h) ==
            IF Len(h) = 2 /\ h[2][1] = "block"
            THEN 4 * h[2][2].timestamp + 2 * Len(h[2][2].transactions) + h[2][2].proof
            ELSE 0
    IN  HexCode(h1) < HexCode(h2)

\* C26: the leader of a consensus tick has the greatest height of all nodes, and of
\* the nodes of that height it is the one with the smallest tip hash
C26_LeaderByHeightThenTipHash ==
    last.op = "sync_chains" =>
        \A m \in Node :
            /\ Len(chain[m]) <= Len(chain[last.node])
            /\ Len(chain[m]) = Len(chain[last.node]) =>
                  ~HexLess(TipHash(chain[m]), TipHash(chain[last.node]))

----------------------------------------------------------------------------
(* The order in which a thread takes the mutexes of one node *)

\* what a call does to the mutexes, in program order: the lock_guard constructors
\* ("lock") and the ends of their scopes ("unlock"), and where between them it
\* reads or writes the mempool ("access")

\* Blockchain::get_balance, and every other accessor that holds chain_mutex alone
\* (get_account_state, get_state_root, get_chain, is_chain_valid)
get_balance_locks == << <<"lock", "chain_mutex">>, <<"unlock", "chain_mutex">> >>

\* a faulty add_transaction that reads the balance through get_balance inside its
\* critical section
add_transaction_locks_get_balance_inside ==
    << <<"lock", "mempool_mutex">> >> \o get_balance_locks
        \o << <<"access", "mempool">>, <<"unlock", "mempool_mutex">> >>

\* Blockchain::add_transaction: mempool_mutex for the whole call; _validate_transaction
\* and its helpers take no lock; the eviction and the push are its mempool access
add_transaction_locks ==
    << <<"lock", "mempool_mutex">>, <<"access", "mempool">>, <<"unlock", "mempool_mutex">> >>

\* Blockchain::mine_block: chain_mutex for the whole call, under it the loop that
\* drains the mempool, chain_mutex again inside _calculate_difficulty, state_mutex at
\* the end of _update_balances
mine_block_locks ==
    << <<"lock", "chain_mutex">>, <<"access", "mempool">>,
       <<"lock", "chain_mutex">>, <<"unlock", "chain_mutex">>,
       <<"lock", "state_mutex">>, <<"unlock", "state_mutex">>, <<"unlock", "chain_mutex">> >>

\* BlockchainNode::broadcast_message (also add_peer, remove_peer, get_peers)
broadcast_message_locks == << <<"lock", "peers_mutex_">>, <<"unlock", "peers_mutex_">> >>

\* the calls of a node that take a mutex.  validate_and_add_transaction is
\* get_balance, then add_transaction; receive_block holds blockchain_mutex_ around
\* is_chain_valid; the handlers end with broadcast_message.
LockScript ==
    [add_transaction |-> add_transaction_locks,
     mine_block |-> mine_block_locks,
     get_balance |-> get_balance_locks,
     get_mempool_size |->
        << <<"lock", "chain_mutex">>, <<"access", "mempool">>, <<"unlock", "chain_mutex">> >>,
     broadcast_message |-> broadcast_message_locks,
     validate_and_add_transaction |-> get_balance_locks \o add_transaction_locks,
     receive_transaction |->
        << <<"lock", "tx_queue_mutex_">>, <<"unlock", "tx_queue_mutex_">> >>,
     mine_pending_transactions |->
        << <<"lock", "tx_queue_mutex_">> >> \o mine_block_locks \o broadcast_message_locks
            \o << <<"unlock", "tx_queue_mutex_">> >>,
     handle_new_transaction |->
        get_balance_locks \o add_transaction_locks \o broadcast_message_locks,
     receive_block |->
        << <<"lock", "blockchain_mutex_">> >> \o get_balance_locks
            \o << <<"unlock", "blockchain_mutex_">> >>,
     handle_new_block |->
        << <<"lock", "blockchain_mutex_">> >> \o get_balance_locks
            \o << <<"unlock", "blockchain_mutex_">> >> \o broadcast_message_locks,
     handle_state_sync_request |->
        << <<"lock", "blockchain_mutex_">> >> \o get_balance_locks \o get_balance_locks
            \o get_balance_locks \o << <<"unlock", "blockchain_mutex_">> >>]

\* a thread enters one of the calls
LockCall(t, op) ==
    /\ lock_threads[t].pc = 0
    /\ lock_threads' = [lock_threads EXCEPT ![t] = [op |-> op, pc |-> 1, held |-> <<>>]]
    /\ UNCHANGED <<bcVars, pending_transactions_, tx_queue_mutex_, peer_map_, manager,
                   store, now, mine_thread, last>>

\* the thread's next lock, unlock or mempool access.  A lock of a mutex another
\* thread holds waits; a lock of a mutex the thread itself holds is undefined: it is
\* granted or the thread hangs in it.  Guards are released innermost first.  After
\* the last step the call returns.
LockStep(t, relock) ==
    LET me == lock_threads[t]
        script == IF me.pc = 0 THEN <<>> ELSE LockScript[me.op]
        ev == script[me.pc]
        HeldBy(u) == { lock_threads[u].held[i] : i \in DOMAIN lock_threads[u].held }
        others == UNION { HeldBy(u) : u \in Thread \ {t} }
    IN
    /\ me.pc \in 1..Len(script)
    /\ IF ev[1] = "lock"
       THEN /\ ev[2] \notin others
            /\ IF ev[2] \in HeldBy(t)
               THEN lock_threads' = [lock_threads EXCEPT ![t] =
                        IF relock = "granted"
                        THEN [me EXCEPT !.pc = me.pc + 1, !.held = Append(me.held, ev[2])]
                        ELSE [me EXCEPT !.pc = Len(script) + 1]]
               ELSE /\ relock = "granted"
                    /\ lock_threads' = [lock_threads EXCEPT ![t] =
                          [me EXCEPT !.pc = me.pc + 1, !.held = Append(me.held, ev[2])]]
       ELSE /\ relock = "granted"
            /\ lock_threads' = [lock_threads EXCEPT ![t] =
                  IF me.pc = Len(script)
                  THEN [op |-> "none", pc |-> 0, held |-> <<>>]
                  ELSE IF ev[1] = "access"
                  THEN [me EXCEPT !.pc = me.pc + 1]
                  ELSE [me EXCEPT !.pc = me.pc + 1,
                                  !.held = SubSeq(me.held, 1, Len(me.held) - 1)]]
    /\ UNCHANGED <<bcVars, pending_transactions_, tx_queue_mutex_, peer_map_, manager,
                   store, now, mine_thread, last>>

NextLocks ==
    \/ \E t \in Thread, op \in DOMAIN LockScript : LockCall(t, op)
    \/ \E t \in Thread, r \in Relock : LockStep(t, r)

SpecLocks == Init /\ [][NextLocks]_vars

\* C27: no thread takes the chain lock while it holds the mempool lock or the
\* peer-table lock, and no thread takes the mempool lock while it holds the
\* peer-table lock
C27_LockOrder ==
    \A t \in Thread :
        LET held == lock_threads[t].held
            TakenUnder(outer, inner) ==
                \E i, j \in DOMAIN held : i < j /\ held[i] = outer /\ held[j] = inner
        IN  /\ ~TakenUnder("mempool_mutex", "chain_mutex")
            /\ ~TakenUnder("peers_mutex_", "chain_mutex")
            /\ ~TakenUnder("peers_mutex_", "mempool_mutex")

\* one thread has reached the peer-table lock of handle_new_transaction, after its
\* chain and mempool locks, while another is inside the mine_block of
\* mine_pending_transactions with tx_queue_mutex_, chain_mutex and state_mutex
C27_Witness ==
    \E t, u \in Thread :
        /\ lock_threads[t].op = "handle_new_transaction"
        /\ lock_threads[t].held = <<"peers_mutex_">>
        /\ lock_threads[u].op = "mine_pending_transactions"
        /\ lock_threads[u].held = <<"tx_queue_mutex_", "chain_mutex", "state_mutex">>

\* the thread is at a read or write of the mempool
AtMempool(t) ==
    /\ lock_threads[t].pc > 0
    /\ lock_threads[t].pc <= Len(LockScript[lock_threads[t].op])
    /\ LockScript[lock_threads[t].op][lock_threads[t].pc] = <<"access", "mempool">>

\* C28: a thread reads or writes the mempool only while it holds the mempool lock,
\* so no two threads are at the mempool at the same time
C28_MempoolUnderMempoolLock ==
    /\ \A t \in Thread :
          AtMempool(t) => \E i \in DOMAIN lock_threads[t].held :
                              lock_threads[t].held[i] = "mempool_mutex"
    /\ \A t, u \in Thread : AtMempool(t) /\ AtMempool(u) => t = u

----------------------------------------------------------------------------
(* Admission beside the application of a block *)

\* the loop of mine_block has ended: _calculate_difficulty, _proof_of_work and
\* _create_block, up to the call of _update_balances
MineBlockCreate(n, relock) ==
    LET th == mine_thread[n]
        block == MinedBlock(n, th.block_transactions)
    IN
    /\ th.pc = "loop"
    /\ mempool[n] = <<>> \/ Len(th.block_transactions) >= th.max_transactions
    /\ IF relock = "deadlock"
       THEN /\ chain_mutex' = [chain_mutex EXCEPT ![n] = "stuck"]
            /\ mine_thread' = [mine_thread EXCEPT ![n] = NoThread]
            /\ last' = Last("mine_block", n, "deadlock")
            /\ UNCHANGED difficulty
       ELSE /\ difficulty' = [difficulty EXCEPT ![n] = _calculate_difficulty(Len(chain[n]))]
            /\ mine_thread' = [mine_thread EXCEPT ![n] =
                                  [th EXCEPT !.pc = "update", !.block = block]]
            /\ last' = [Last("mine_block", n, "created") EXCEPT !.block = block]
            /\ UNCHANGED chain_mutex
    /\ UNCHANGED <<chain, mempool, account_balances, account_nonces, nodeVars, store, now>>

\* one round of the loop of _update_balances, which writes account_balances and
\* account_nonces under chain_mutex while add_transaction reads them under
\* mempool_mutex; after the last round chain.push_back, save_block and the return
\* of mine_block
UpdateBalancesStep(n) ==
    LET th == mine_thread[n]
        state == [balances |-> account_balances[n], nonces |-> account_nonces[n]]
        after == ApplyTx(state, Head(th.block_transactions))
    IN
    /\ th.pc = "update"
    /\ IF th.block_transactions # <<>>
       THEN /\ account_balances' = [account_balances EXCEPT ![n] = after.balances]
            /\ account_nonces' = [account_nonces EXCEPT ![n] = after.nonces]
            /\ mine_thread' = [mine_thread EXCEPT ![n] =
                                  [th EXCEPT !.block_transactions = Tail(@)]]
            /\ last' = Last("mine_block", n, "applied")
            /\ UNCHANGED <<chain, chain_mutex, store>>
       ELSE /\ chain' = [chain EXCEPT ![n] = Append(@, th.block)]
            /\ store' = save_block(store, BlockJson(th.block))
            /\ chain_mutex' = [chain_mutex EXCEPT ![n] = "free"]
            /\ mine_thread' = [mine_thread EXCEPT ![n] = NoThread]
            /\ last' = [Last("mine_block", n, "ok") EXCEPT !.block = th.block]
            /\ UNCHANGED <<account_balances, account_nonces>>
    /\ UNCHANGED <<mempool, difficulty, nodeVars, now>>

NextApply ==
    \/ \E n \in CoreNode, b \in InitialBalances : CreateAccount(n, "A", b)
    \/ \E n \in CoreNode, tx \in PersistTxInputs :
          mine_thread[n].behind = <<>> /\ AddTransaction(n, tx)
    \/ \E n \in CoreNode, m \in MaxTransactions :
          Len(chain[n]) < CoreMaxHeight /\ MineBlockEnter(n, m)
    \/ \E n \in CoreNode : MineBlockFront(n)
    \/ \E n \in CoreNode : MineBlockPop(n)
    \/ \E n \in CoreNode, r \in Relock : MineBlockCreate(n, r)
    \/ \E n \in CoreNode : UpdateBalancesStep(n)

SpecApply == Init /\ [][NextApply]_vars

\* C29: add_transaction never validates against balances and nonces to which only
\* some of the transactions of the block being applied have been applied
C29_AdmissionSeesWholeBlocks ==
    last.op = "add_transaction" =>
        LET th == mine_thread[last.node]
        IN  ~(/\ th.pc = "update"
              /\ Len(th.block_transactions) > 0
              /\ Len(th.block_transactions) < Len(th.block.transactions))

----------------------------------------------------------------------------
(* Resubmission of an applied transaction under another nonce *)

\* a node that admits and mines transfers of A, and to which every transaction of
\* its chain is offered again with the nonce field raised by one and nothing else
\* changed
NextReplay ==
    \/ \E n \in CoreNode, b \in InitialBalances : CreateAccount(n, "A", b)
    \/ \E n \in CoreNode, tx \in PersistTxInputs : AddTransaction(n, tx)
    \/ \E n \in CoreNode, m \in MaxTransactions, r \in Relock :
          Len(chain[n]) < CoreMaxHeight + 1 /\ MineBlock(n, m, r)
    \/ \E n \in CoreNode : \E i \in 1..Len(AppliedTxs(chain[n])) :
          AddTransaction(n, [AppliedTxs(chain[n])[i] EXCEPT !.nonce = @ + 1])

SpecReplay == Init /\ [][NextReplay]_vars

\* C30: add_transaction rejects a transaction that differs from an applied
\* transaction of the chain in its nonce field alone
C30_RenumberedReplayRejected ==
    last.op = "add_transaction" =>
        \A i \in 1..Len(AppliedTxs(chain[last.node])) :
            LET applied == AppliedTxs(chain[last.node])[i]
            IN  (/\ last.tx.nonce # applied.nonce
                 /\ [last.tx EXCEPT !.nonce = applied.nonce] = applied)
                    => last.result # "ok"

----------------------------------------------------------------------------
(* Mining, relaying and difficulty *)

\* C31: a transaction that is not valid against the balances and nonces mine_block
\* finds when it drains the mempool is in no mined block, so it is never applied
C31_InvalidAtDrainDropped ==
    (last.op = "mine_block" /\ last.result = "ok") =>
        \A i \in 1..Len(last.block.transactions) :
            _validate_transaction(last.state_before.balances, last.state_before.nonces,
                                  last.block.transactions[i]) = "ok"

----------------------------------------------------------------------------
(* Gossip among the two nodes and a third peer *)

\* BlockchainNode::add_peer
AddPeer(n, peer_id) ==
    /\ peer_id \notin peer_map_[n]
    /\ peer_map_' = [peer_map_ EXCEPT ![n] = @ \cup {peer_id}]
    /\ last' = Last("add_peer", n, "ok")
    /\ UNCHANGED <<bcVars, pending_transactions_, tx_queue_mutex_, manager, lock_threads,
                   store, now, mine_thread>>

\* a call of BlockchainNode::broadcast_message
BroadcastMessage(n, exclude_peer) ==
    /\ last' = [Last("broadcast_message", n, "ok") EXCEPT
                  !.sent = broadcast_message(peer_map_[n], exclude_peer),
                  !.exclude_peer = exclude_peer]
    /\ UNCHANGED <<bcVars, nodeVars, store, now, mine_thread>>

\* The two nodes and a third peer n3, a node of the same program whose tables are
\* not part of the state.  A client hands one NEW_TRANSACTION to a node while all
\* mempools are empty; a message a handler has addressed to a peer is handled by
\* that peer next; n3 relays what it is addressed to the nodes that have it as a
\* peer, but the one it got the message from.  A NEW_BLOCK carries the sender's tip
\* under index 1 or 2, which extends no chain.
NextGossip ==
    \/ \E n \in Node : \E p \in (Node \cup {"n3"}) \ {n} : AddPeer(n, p)
    \/ \E n \in Node, b \in InitialBalances : CreateAccount(n, "A", b)
    \/ \E n \in Node, tx \in NetTxInputs :
          /\ \A m \in Node : mempool[m] = <<>>
          /\ HandleNewTransaction(n, "client", tx)
    \/ \E n \in Node :
          /\ last.op = "handle_new_transaction" /\ n \in last.sent
          /\ HandleNewTransaction(n, last.node, last.tx)
    \/ /\ last.op = "handle_new_transaction" /\ "n3" \in last.sent
       /\ last' = [Last("handle_new_transaction", "n3", "ok") EXCEPT
                     !.tx = last.tx,
                     !.sent = { m \in Node : "n3" \in peer_map_[m] } \ {last.node}]
       /\ UNCHANGED <<bcVars, nodeVars, store, now, mine_thread>>
    \/ \E n \in Node, m \in Node, i \in 1..2 :
          HandleNewBlock(n, m, [chain[m][Len(chain[m])] EXCEPT !.index = i])
    \/ \E n \in Node, x \in Node \cup {"n3", ""} : BroadcastMessage(n, x)

SpecGossip == Init /\ [][NextGossip]_vars

\* C32: a NEW_BLOCK whose block does not extend the receiving node's tip, and so
\* fails validation, is not appended to the chain and is relayed to no peer
C32_InvalidBlockDropped ==
    ( /\ last.op = "handle_new_block"
      /\ \/ last.block.previous_hash # last.tip_before
         \/ last.block.index # last.height_before + 1 )
        => /\ Len(chain[last.node]) = last.height_before
           /\ TipHash(chain[last.node]) = last.tip_before
           /\ last.sent = {}

\* C34: broadcast_message addresses exactly the peers of the node's table other
\* than the origin, and all of them when no origin is given
C34_BroadcastToAllButOrigin ==
    last.op = "broadcast_message" =>
        last.sent = IF last.exclude_peer = "" THEN peer_map_[last.node]
                    ELSE peer_map_[last.node] \ {last.exclude_peer}

\* a broadcast from a table of two peers with one of them as origin
C34_Witness ==
    /\ last.op = "broadcast_message"
    /\ peer_map_[last.node] = {"n2", "n3"}
    /\ last.exclude_peer = "n2"
    /\ last.sent = {"n3"}

\* C36: a NEW_TRANSACTION handed once to a cluster is admitted to a node's mempool
\* at most once, so that the relaying of it comes to an end
C36_AdmittedAtMostOnce ==
    \A n \in Node : \A i, j \in 1..Len(mempool[n]) :
        mempool[n][i] = mempool[n][j] => i = j

----------------------------------------------------------------------------
(* The difficulty mine_block takes, as a function of the size of the chain *)

MaxChainSize == 120

\* mine_block on a chain of size blocks, as far as the difficulty goes: it sets
\* difficulty = _calculate_difficulty() before it appends block number size + 1
NextDifficulty ==
    \E n \in CoreNode, size \in 1..MaxChainSize :
        /\ difficulty' = [difficulty EXCEPT ![n] = _calculate_difficulty(size)]
        /\ last' = [Last("mine_block", n, "difficulty") EXCEPT !.height_before = size]
        /\ UNCHANGED <<chain, mempool, account_balances, account_nonces, chain_mutex,
                       nodeVars, store, now, mine_thread>>

SpecDifficulty == Init /\ [][NextDifficulty]_vars

\* C33: the block of height h >= 2 is mined with difficulty 4 + floor(h / 100)
C33_DifficultyOfHeight ==
    (last.op = "mine_block" /\ last.result = "difficulty") =>
        difficulty[last.node] = 4 + ((last.height_before + 1) \div 100)

\* C35: a call of mine_block on a non-empty chain returns its block; it does not
\* hang in the lock of a mutex its own thread holds
C35_MineBlockReturns ==
    (last.op = "mine_block" /\ last.height_before >= 0 /\ chain[last.node] # <<>>) =>
        /\ last.result = "ok"
        /\ chain_mutex[last.node] = "free"

\* C37: is_network_synced() with the default tolerance holds only when all nodes
\* hold the same chain: equal height and equal tip hash
C37_SyncedMeansSameChain ==
    (is_network_synced /\ \A n \in Node : chain_mutex[n] = "free") =>
        \A n, m \in Node :
            /\ Len(chain[n]) = Len(chain[m])
            /\ chain[n][Len(chain[n])] = chain[m][Len(chain[m])]

----------------------------------------------------------------------------
(* The state root over the tables of two nodes *)

\* the balances accounts are created with: the initial balance, what is left of it
\* after one transfer, and what one transfer brings
StateRootBalances ==
    InitialBalances \cup Amounts
        \cup { b - (a + g) : b \in InitialBalances, a \in Amounts, g \in GasPrices }

\* Blockchain::get_account_state: the balance of each account with its last nonce,
\* 0 for an account without one
get_account_state(balances, nonces) ==
    [a \in DOMAIN balances |-> [balance |-> balances[a], nonce |-> MapGet(nonces, a, 0)]]

\* Blockchain::sync_state.  It holds chain_mutex when it calls get_account_state,
\* which locks chain_mutex again on the same thread: relock is what the build makes
\* of that, and a thread blocked on itself does not return.
SyncState(n, remote_state, relock) ==
    LET local_state == get_account_state(account_balances[n], account_nonces[n])
        before == [balances |-> account_balances[n], nonces |-> account_nonces[n]]
        identical ==
            /\ Cardinality(DOMAIN local_state) = Cardinality(DOMAIN remote_state)
            /\ \A addr \in DOMAIN remote_state :
                  /\ addr \in DOMAIN local_state
                  /\ local_state[addr].balance = remote_state[addr].balance
                  /\ local_state[addr].nonce = remote_state[addr].nonce
    IN
    /\ chain_mutex[n] = "free"
    /\ IF relock = "deadlock"
       THEN /\ chain_mutex' = [chain_mutex EXCEPT ![n] = "stuck"]
            /\ last' = [Last("sync_state", n, "deadlock") EXCEPT
                          !.state_before = before, !.remote_state = remote_state]
       ELSE /\ UNCHANGED chain_mutex
            /\ last' = [Last("sync_state", n, IF identical THEN "true" ELSE "false") EXCEPT
                          !.state_before = before, !.remote_state = remote_state]
    /\ UNCHANGED <<chain, mempool, account_balances, account_nonces, difficulty,
                   nodeVars, store, now, mine_thread>>

NextStateRoot ==
    \/ \E n \in Node, a \in Addr, b \in StateRootBalances : CreateAccount(n, a, b)
    \/ \E n \in Node, tx \in NetTxInputs :
          Len(mempool[n]) < MaxPending /\ AddTransaction(n, tx)
    \/ \E n \in Node, m \in MaxTransactions, r \in Relock :
          Len(chain[n]) < CoreMaxHeight /\ MineBlock(n, m, r)
    \/ \E n \in Node, r \in Relock : \E m \in Node \ {n} :
          SyncState(n, get_account_state(account_balances[m], account_nonces[m]), r)

SpecStateRoot == Init /\ [][NextStateRoot]_vars

\* C38: two account tables have the same state root only if they are equal in every
\* balance, every nonce, and in which accounts have ever sent a transaction
C38_EqualRootEqualTables ==
    \A n, m \in Node :
        get_state_root(n) = get_state_root(m) =>
            /\ account_balances[n] = account_balances[m]
            /\ account_nonces[n] = account_nonces[m]

\* C39: after any sequence of operations, load_blockchain_state among them, the
\* chain of a node is non-empty, its first block is the genesis block (index 1,
\* previous_hash "0", no transactions) and the block at position i has index i
C39_GenesisFirstIndicesDense ==
    \A n \in Node :
        /\ chain[n] # <<>>
        /\ chain[n][1].index = 1
        /\ chain[n][1].previous_hash = <<"0">>
        /\ chain[n][1].transactions = <<>>
        /\ \A i \in 1..Len(chain[n]) : chain[n][i].index = i

\* C40: sync_state(remote_state) returns true exactly when the remote table has the
\* accounts of the local table with the same balance and nonce each, false
\* otherwise, and leaves the local balances and nonces as they were
C40_SyncStateComparesOnly ==
    last.op = "sync_state" =>
        LET n == last.node
            local_state == get_account_state(last.state_before.balances,
                                             last.state_before.nonces)
        IN  /\ last.result = (IF local_state = last.remote_state THEN "true" ELSE "false")
            /\ account_balances[n] = last.state_before.balances
            /\ account_nonces[n] = last.state_before.nonces

====
